---------------------------- MODULE Spec2Model ----------------------------
(***************************************************************************)
(* ConfigObjConfigHandler (cement/ext/ext_configobj.py): the configuration *)
(* handler that adapts a ConfigObj store to the IConfig interface.         *)
(*                                                                         *)
(* The store is a ConfigObj built with no arguments: `sections` is the     *)
(* list ConfigObj keeps of the keys whose value is a section, `data` is    *)
(* the mapping self[section] -> {key: value}.  Values are opaque tokens    *)
(* (strings without interpolation references); the keys of a section are   *)
(* observed as a set, their order is not modelled.                         *)
(***************************************************************************)
EXTENDS Naturals, Sequences, FiniteSets, TLC

\* Number of handler calls in a run.
MaxCalls == 3

Values == {"v1", "v2"}
SectionNames == {"sec", "other"}
KeyNames == {"k", "k2"}
Range(q) == {q[i] : i \in 1..Len(q)}
\* The orders in which a Python 2 dict may list the keys in S.
Orderings(S) ==
    {q \in [1..Cardinality(S) -> S] : \A i, j \in 1..Cardinality(S) : i # j => q[i] # q[j]}
KeyOrders == [S \in SUBSET KeyNames |-> Orderings(S)]
SectionOrders == [S \in SUBSET SectionNames |-> Orderings(S)]
KeyList(S) == CHOOSE q \in KeyOrders[S] : TRUE

\* The values a dict may hold: a plain dict of key/value pairs, or something
\* whose type is not dict (a string here).
Items == UNION {[ks -> Values] : ks \in SUBSET KeyNames}
DictEntry(items) == [type |-> "dict", items |-> items]
StrEntry == [type |-> "str", items |-> <<>>]
Entries == {DictEntry(items) : items \in Items} \cup {StrEntry}
\* The dicts handed to merge: one top-level entry of any shape, or two
\* entries of at most one setting each.
DictObjs ==
    {d \in UNION {[ss -> Entries] : ss \in SUBSET SectionNames} :
        \/ Cardinality(DOMAIN d) <= 1
        \/ \A s \in DOMAIN d : Cardinality(DOMAIN d[s].items) <= 1}

\* The file system: for each path that exists and parses, the value of
\* ConfigObj(path).dict(); a setting above the first section header is a
\* top-level string.
FileSystem ==
    "app.conf" :> ("sec" :> DictEntry("k" :> "v1"))
    @@ "site.conf" :> ("sec" :> DictEntry("k" :> "v2") @@ "other" :> DictEntry(<<>>))
    @@ "top.conf" :> ("sec" :> StrEntry
                      @@ "other" :> DictEntry("k" :> "v1" @@ "k2" :> "v2"))
    @@ "empty.conf" :> <<>>
Paths == DOMAIN FileSystem \cup {"missing.conf", "broken.conf"}

NoCall == [op |-> "init", section |-> "-", key |-> "-", value |-> "-",
           dict_obj |-> <<>>, override |-> FALSE, path |-> "-"]
None == [kind |-> "None", val |-> "-"]
KeyError == [kind |-> "KeyError", val |-> "-"]
ParseError == [kind |-> "ParseError", val |-> "-"]
Returns(kind, val) == [kind |-> kind, val |-> val]

VARIABLES config, prev, call, ret, ncalls
vars == <<config, prev, call, ret, ncalls>>

EmptyConfig == [sections |-> <<>>, data |-> <<>>]

-----------------------------------------------------------------------------
\* The handler's methods, as functions of the store c (self).

\* self[section] raises KeyError
lookup_fails(c, section) == section \notin DOMAIN c.data

get_sections(c) == c.sections

keys(c, section) == DOMAIN c.data[section]

get(c, section, key) == c.data[section][key]

get_fails(c, section, key) ==
    lookup_fails(c, section) \/ key \notin DOMAIN c.data[section]

\* set that keeps the value of a key already present
set_if_absent(c, section, key, value) ==
    [c EXCEPT !.data[section] =
        [x \in (DOMAIN @) \cup {key} |->
            IF x = key /\ key \notin DOMAIN @ THEN value ELSE @[x]]]

set(c, section, key, value) ==
    [c EXCEPT !.data[section] =
        [x \in (DOMAIN @) \cup {key} |-> IF x = key THEN value ELSE @[x]]]

has_section(c, section) ==
    IF section \in Range(get_sections(c)) THEN TRUE ELSE FALSE

\* self[section] = dict() on a ConfigObj: a key not yet in the store is
\* appended to self.sections and bound to an empty section.
\* a new section put at the head of self.sections
setitem_dict_prepend(c, section) ==
    [sections |-> IF section \in DOMAIN c.data THEN c.sections
                  ELSE <<section>> \o c.sections,
     data |-> [x \in (DOMAIN c.data) \cup {section} |->
                 IF x = section THEN <<>> ELSE c.data[x]]]

setitem_dict(c, section) ==
    [sections |-> IF section \in DOMAIN c.data THEN c.sections
                  ELSE Append(c.sections, section),
     data |-> [x \in (DOMAIN c.data) \cup {section} |->
                 IF x = section THEN <<>> ELSE c.data[x]]]

\* add_section without the has_section test
add_section_unguarded(c, section) == setitem_dict(c, section)

add_section(c, section) ==
    IF ~has_section(c, section) THEN setitem_dict(c, section) ELSE c

get_section_dict(c, section) ==
    [key \in keys(c, section) |-> get(c, section, key)]

\* the key loop with the override flag ignored: always overwrite
RECURSIVE merge_keys_always(_, _, _, _, _)
merge_keys_always(c, section, items, ks, override) ==
    IF ks = <<>> THEN c
    ELSE merge_keys_always(set(c, section, Head(ks), items[Head(ks)]),
                           section, items, Tail(ks), override)

\* the key loop with the override flag ignored: never overwrite
RECURSIVE merge_keys_never(_, _, _, _, _)
merge_keys_never(c, section, items, ks, override) ==
    IF ks = <<>> THEN c
    ELSE merge_keys_never(IF Head(ks) \notin DOMAIN c.data[section]
                          THEN set(c, section, Head(ks), items[Head(ks)])
                          ELSE c,
                          section, items, Tail(ks), override)

RECURSIVE merge_keys(_, _, _, _, _)
merge_keys(c, section, items, ks, override) ==
    IF ks = <<>> THEN c
    ELSE LET key == Head(ks)
             c1 == IF override THEN set(c, section, key, items[key])
                   ELSE IF key \notin keys(c, section)
                        THEN set(c, section, key, items[key])
                        ELSE c
         IN  merge_keys(c1, section, items, Tail(ks), override)

\* merge without the type(dict_obj[section]) == dict test
RECURSIVE merge_untyped(_, _, _, _)
merge_untyped(c, dict_obj, order, override) ==
    IF order = <<>> THEN c
    ELSE LET section == Head(order)
             c1 == IF ~(section \in Range(c.sections))
                   THEN setitem_dict(c, section) ELSE c
             c2 == merge_keys(c1, section, dict_obj[section].items,
                              KeyList(DOMAIN dict_obj[section].items), override)
         IN  merge_untyped(c2, dict_obj, Tail(order), override)

\* order is list(dict_obj.keys())
RECURSIVE merge(_, _, _, _)
merge(c, dict_obj, order, override) ==
    IF order = <<>> THEN c
    ELSE LET section == Head(order)
         IN  IF dict_obj[section].type = "dict"
             THEN LET c1 == IF ~(section \in Range(get_sections(c)))
                            THEN add_section(c, section) ELSE c
                      c2 == merge_keys(c1, section, dict_obj[section].items,
                                       KeyList(DOMAIN dict_obj[section].items),
                                       override)
                  IN  merge(c2, dict_obj, Tail(order), override)
             ELSE merge(c, dict_obj, Tail(order), override)

path_exists(file_path) == file_path # "missing.conf"
path_parses(file_path) == file_path \in DOMAIN FileSystem

-----------------------------------------------------------------------------
Init ==
    /\ config = EmptyConfig
    /\ prev = EmptyConfig
    /\ call = NoCall
    /\ ret = None
    /\ ncalls = 0

Called(c, r) ==
    /\ ncalls < MaxCalls
    /\ ncalls' = ncalls + 1
    /\ prev' = config
    /\ call' = c
    /\ ret' = r

GetSections ==
    /\ Called([NoCall EXCEPT !.op = "get_sections"],
              Returns("list", get_sections(config)))
    /\ UNCHANGED config

\* get_section_dict that answers {} for a section that does not exist
GetSectionDictLenient ==
    \E section \in SectionNames :
        /\ Called([NoCall EXCEPT !.op = "get_section_dict", !.section = section],
                  IF lookup_fails(config, section) THEN Returns("dict", <<>>)
                  ELSE Returns("dict", get_section_dict(config, section)))
        /\ UNCHANGED config

GetSectionDict ==
    \E section \in SectionNames :
        /\ Called([NoCall EXCEPT !.op = "get_section_dict", !.section = section],
                  IF lookup_fails(config, section) THEN KeyError
                  ELSE Returns("dict", get_section_dict(config, section)))
        /\ UNCHANGED config

Keys ==
    \E section \in SectionNames :
        /\ Called([NoCall EXCEPT !.op = "keys", !.section = section],
                  IF lookup_fails(config, section) THEN KeyError
                  ELSE Returns("list", keys(config, section)))
        /\ UNCHANGED config

Get ==
    \E section \in SectionNames, key \in KeyNames :
        /\ Called([NoCall EXCEPT !.op = "get", !.section = section, !.key = key],
                  IF get_fails(config, section, key) THEN KeyError
                  ELSE Returns("value", get(config, section, key)))
        /\ UNCHANGED config

\* set that creates the section when it is missing
SetCreatesSection ==
    \E section \in SectionNames, key \in KeyNames, value \in Values :
        /\ Called([NoCall EXCEPT !.op = "set", !.section = section,
                                 !.key = key, !.value = value], None)
        /\ config' = set(add_section(config, section), section, key, value)

Set ==
    \E section \in SectionNames, key \in KeyNames, value \in Values :
        LET c == [NoCall EXCEPT !.op = "set", !.section = section,
                                !.key = key, !.value = value]
        IN  IF lookup_fails(config, section)
            THEN Called(c, KeyError) /\ UNCHANGED config
            ELSE Called(c, None) /\ config' = set(config, section, key, value)

HasSection ==
    \E section \in SectionNames :
        /\ Called([NoCall EXCEPT !.op = "has_section", !.section = section],
                  Returns("bool", has_section(config, section)))
        /\ UNCHANGED config

AddSection ==
    \E section \in SectionNames :
        /\ Called([NoCall EXCEPT !.op = "add_section", !.section = section], None)
        /\ config' = add_section(config, section)

Merge ==
    \E dict_obj \in DictObjs, override \in BOOLEAN :
        \E order \in SectionOrders[DOMAIN dict_obj] :
            /\ Called([NoCall EXCEPT !.op = "merge", !.dict_obj = dict_obj,
                                     !.override = override], None)
            /\ config' = merge(config, dict_obj, order, override)

\* parse_file that merges without override
ParseFileNoOverride ==
    \E file_path \in Paths :
        IF path_exists(file_path)
        THEN IF path_parses(file_path)
             THEN LET dict_obj == FileSystem[file_path] IN
                    \E order \in SectionOrders[DOMAIN dict_obj] :
                        /\ Called([NoCall EXCEPT !.op = "parse_file",
                                                 !.path = file_path,
                                                 !.dict_obj = dict_obj],
                                  Returns("bool", TRUE))
                        /\ config' = merge(config, dict_obj, order, FALSE)
             ELSE /\ Called([NoCall EXCEPT !.op = "parse_file", !.path = file_path],
                            ParseError)
                  /\ UNCHANGED config
        ELSE /\ Called([NoCall EXCEPT !.op = "parse_file", !.path = file_path],
                       Returns("bool", FALSE))
             /\ UNCHANGED config

\* parse_file that empties the configuration when the file is missing
ParseFileResets ==
    \E file_path \in Paths :
        IF path_exists(file_path)
        THEN IF path_parses(file_path)
             THEN LET dict_obj == FileSystem[file_path] IN
                    \E order \in SectionOrders[DOMAIN dict_obj] :
                        /\ Called([NoCall EXCEPT !.op = "parse_file",
                                                 !.path = file_path,
                                                 !.dict_obj = dict_obj],
                                  Returns("bool", TRUE))
                        /\ config' = merge(config, dict_obj, order, TRUE)
             ELSE /\ Called([NoCall EXCEPT !.op = "parse_file", !.path = file_path],
                            ParseError)
                  /\ UNCHANGED config
        ELSE /\ Called([NoCall EXCEPT !.op = "parse_file", !.path = file_path],
                       Returns("bool", FALSE))
             /\ config' = EmptyConfig

\* dict_obj is ConfigObj(file_path).dict() when the file exists and parses.
ParseFile ==
    \E file_path \in Paths :
        IF path_exists(file_path)
        THEN IF path_parses(file_path)
             THEN LET dict_obj == FileSystem[file_path] IN
                    \E order \in SectionOrders[DOMAIN dict_obj] :
                        /\ Called([NoCall EXCEPT !.op = "parse_file",
                                                 !.path = file_path,
                                                 !.dict_obj = dict_obj],
                                  Returns("bool", TRUE))
                        /\ config' = merge(config, dict_obj, order, TRUE)
             ELSE /\ Called([NoCall EXCEPT !.op = "parse_file", !.path = file_path],
                            ParseError)
                  /\ UNCHANGED config
        ELSE /\ Called([NoCall EXCEPT !.op = "parse_file", !.path = file_path],
                       Returns("bool", FALSE))
             /\ UNCHANGED config

Next ==
    \/ GetSections
    \/ GetSectionDict
    \/ ParseFile
    \/ Keys
    \/ Get
    \/ Set
    \/ HasSection
    \/ AddSection
    \/ Merge

Spec == Init /\ [][Next]_vars

-----------------------------------------------------------------------------
\* Vocabulary of the properties.

\* (section, key) is a setting of c: get(section, key) succeeds
HasKey(c, section, key) == ~get_fails(c, section, key)
\* the top-level keys of dict_obj whose value is a dict
MappingEntries(d) == {s \in DOMAIN d : d[s].type = "dict"}
\* (section, key) is written by merging d
Mentions(d, section, key) ==
    section \in MappingEntries(d) /\ key \in DOMAIN d[section].items
IsPrefix(p, q) == Len(p) <= Len(q) /\ SubSeq(q, 1, Len(p)) = p
NoDuplicates(q) == \A i, j \in 1..Len(q) : i # j => q[i] # q[j]
\* every setting of c other than (section, key) is a setting of d with the same value
SameExcept(c, d, section, key) ==
    \A s \in SectionNames, k \in KeyNames :
        (HasKey(c, s, k) /\ <<s, k>> # <<section, key>>)
            => HasKey(d, s, k) /\ get(d, s, k) = get(c, s, k)

\* Structural invariant of the store: self.sections lists exactly the keys
\* of the store, each once.
StoreInSync ==
    /\ Range(config.sections) = DOMAIN config.data
    /\ NoDuplicates(config.sections)

C3_MissingFileNoOp ==
    (call.op = "parse_file" /\ ~path_exists(call.path)) =>
        /\ ret.kind = "bool" /\ ret.val = FALSE
        /\ get_sections(config) = get_sections(prev)
        /\ \A s \in Range(get_sections(prev)) :
              get_section_dict(config, s) = get_section_dict(prev, s)
        /\ config = prev

\* parse_file of a missing path on a configuration that holds a setting.
C3_Witness ==
    /\ call.op = "parse_file" /\ ~path_exists(call.path)
    /\ ret.kind = "bool"
    /\ \E s \in SectionNames, k \in KeyNames : HasKey(prev, s, k)

\* C4: parse_file on an existing valid file returns True and acts as
\* merge(file contents, override=True): the file's sections are listed and
\* readable, the file's settings hold the file's values, and what the file
\* does not mention is retained.
C4_ParseFileMerges ==
    (call.op = "parse_file" /\ path_exists(call.path) /\ path_parses(call.path)) =>
        LET file == FileSystem[call.path] IN
        /\ ret.kind = "bool" /\ ret.val = TRUE
        /\ \E order \in SectionOrders[DOMAIN file] :
              config = merge(prev, file, order, TRUE)
        /\ \A s \in MappingEntries(file) :
              /\ has_section(config, s)
              /\ ~lookup_fails(config, s)
              /\ \A k \in DOMAIN file[s].items :
                    /\ k \in DOMAIN get_section_dict(config, s)
                    /\ get_section_dict(config, s)[k] = file[s].items[k]
        /\ IsPrefix(get_sections(prev), get_sections(config))
        /\ \A s \in SectionNames, k \in KeyNames :
              (HasKey(prev, s, k) /\ ~Mentions(file, s, k)) =>
                  HasKey(config, s, k) /\ get(config, s, k) = get(prev, s, k)

\* parse_file of a valid file overwrote a setting, kept a setting the file
\* does not mention, and added a section.
C4_Witness ==
    /\ call.op = "parse_file" /\ path_parses(call.path)
    /\ ret.kind = "bool"
    /\ \E s \in SectionNames, k \in KeyNames :
          /\ Mentions(call.dict_obj, s, k) /\ HasKey(prev, s, k)
          /\ get(prev, s, k) # get(config, s, k)
    /\ \E s \in SectionNames, k \in KeyNames :
          HasKey(prev, s, k) /\ ~Mentions(call.dict_obj, s, k)
    /\ Len(get_sections(config)) > Len(get_sections(prev))

\* C5: set on a section that does not exist fails with a lookup error and
\* creates no section: has_section stays false and the configuration is
\* unchanged.
C5_SetMissingSectionFails ==
    (call.op = "set" /\ ~has_section(prev, call.section)) =>
        /\ ret.kind = "KeyError"
        /\ ~has_section(config, call.section)
        /\ config = prev

\* set on a missing section of a configuration that has another section.
C5_Witness ==
    /\ call.op = "set" /\ ~has_section(prev, call.section)
    /\ ret.kind = "KeyError"
    /\ get_sections(prev) # <<>>

C7_AddSectionIdempotent ==
    call.op = "add_section" =>
        /\ ret.kind = "None"
        /\ has_section(config, call.section)
        /\ ~lookup_fails(config, call.section)
        /\ ~has_section(prev, call.section) =>
              /\ keys(config, call.section) = {}
              /\ get_sections(config) = Append(get_sections(prev), call.section)
              /\ \A s \in Range(get_sections(prev)) :
                    get_section_dict(config, s) = get_section_dict(prev, s)
        /\ has_section(prev, call.section) => config = prev
        /\ add_section(config, call.section) = config

\* add_section on a section that exists and holds a setting.
C7_Witness ==
    /\ call.op = "add_section" /\ has_section(prev, call.section)
    /\ keys(prev, call.section) # {}
    /\ Len(get_sections(prev)) = 2

\* C8: get_section_dict(S) of an existing section is the mapping with key
\* set keys(S) and value get(S, K) at K; the call changes nothing, and on
\* a section that does not exist it fails with a lookup error.
C8_SectionDict ==
    call.op = "get_section_dict" =>
        /\ config = prev
        /\ has_section(prev, call.section) =>
              /\ ret.kind = "dict"
              /\ DOMAIN ret.val = keys(config, call.section)
              /\ \A k \in keys(config, call.section) :
                    ret.val[k] = get(config, call.section, k)
        /\ ~has_section(prev, call.section) => ret.kind = "KeyError"

\* get_section_dict returned a section of two settings.
C8_Witness ==
    /\ call.op = "get_section_dict" /\ has_section(prev, call.section)
    /\ ret.kind = "dict"
    /\ Cardinality(DOMAIN ret.val) = 2

C10_OnlyGrows ==
    /\ IsPrefix(get_sections(prev), get_sections(config))
    /\ NoDuplicates(get_sections(config))
    /\ \A s \in Range(get_sections(prev)) :
          /\ ~lookup_fails(config, s)
          /\ keys(prev, s) \subseteq keys(config, s)

\* a call appended a section behind an existing one that holds a setting.
C10_Witness ==
    /\ Len(get_sections(prev)) = 1
    /\ Len(get_sections(config)) = 2
    /\ keys(prev, get_sections(prev)[1]) # {}
    /\ ncalls = MaxCalls
=============================================================================
